---- MODULE Spec2Model ----
(***************************************************************************)
(* Model of mimir/plot.py: the client side of the snapshot/stream          *)
(* reconciliation.  get_socket connects the subscriber, optionally asks    *)
(* for a snapshot and seeds x and y from it; update receives one envelope  *)
(* and appends to the plot's data source when the envelope passes the      *)
(* filter; serve_plot and notebook_plot wire the two together.             *)
(*                                                                         *)
(* Reading of the source.  Line 56 reads `dict(key=[] for key in y_keys)`  *)
(* and the signature on line 13 names the parameter y_key while the body   *)
(* and the docstring use y_keys, a name bound nowhere.  The model binds    *)
(* y_keys in get_socket to the y keys of the session (the one key of       *)
(* serve_plot, the keys of notebook_plot's list) and takes line 56 to      *)
(* build one empty list per y key.  The y column of the plot that update   *)
(* extends (data['y']) is the list that get_socket seeded for update's     *)
(* y_key.  Everything else is as the source has it: in particular          *)
(* notebook_plot hands its list of keys to update, which tests             *)
(* `y_key in entry` on it.                                                 *)
(***************************************************************************)
EXTENDS Integers, Sequences, FiniteSets, TLC

\* Bounds of the model.
MaxSeq == 2
MaxLen == 2
MaxSnap == 2
MaxLog == 2

\* Field names and payload values of log entries; values are opaque to the code.
Keys == {"x", "y", "z"}
Vals == {10, 20}
x_key == "x"

\* A LogEntry is a mapping from some of the field names to values.
Entries == UNION {[K -> Vals] : K \in SUBSET Keys}
\* The entries a server logs for a session that plots y against x.
StreamEntries == UNION {[K -> Vals] : K \in SUBSET {"x", "y"}}
SeqNums == 0..MaxSeq
Envelopes == [sequence : SeqNums, entry : Entries]

\* Sequences over S of length at most n.
SeqsUpTo(S, n) == UNION {[1..k -> S] : k \in 0..n}
Snapshots == [sequence : SeqNums, entries : SeqsUpTo(Entries, MaxSnap)]
NoReply == [sequence |-> 0, entries |-> <<>>, pending |-> FALSE]
NoEnvelope == [sequence |-> 0, entry |-> <<>>]

\* The y keys of a session: serve_plot is given one str, notebook_plot a
\* list of distinct keys.
ServeYKeys == {<<"y">>}
NotebookYKeys == {<<"y">>, <<"y", "z">>}

VARIABLES
    pc,             \* position of the session: start, connected, seeded, live, raised,
                    \* closed; timeout, malformed, failed inside get_socket;
                    \* line92, line93, line94 inside update
    mode,           \* "serve" (serve_plot) or "notebook" (notebook_plot)
    persistent,     \* the persistent keyword argument of get_socket
    y_keys,         \* the y-key argument, as the sequence of its elements
    reply,          \* the snapshot response in flight on the request channel
    init_sequence,  \* `sequence` returned by get_socket, bound into update
    x,              \* the x column of the series
    y,              \* the y columns of the series, one list per y key
    env,            \* (sequence, entry) last returned by recv in update
    outcome,        \* what the last update did: none, applied, dropped, raised
    n_entries,      \* get_socket's count of the snapshot entries it iterated over
    requests,       \* how many snapshot requests get_socket has sent
    seen_max,       \* history: largest sequence number update has received
    applied_seq,    \* history: sequence number of the last applied envelope
    dropped_seq,    \* history: number of the last envelope dropped for a missing key
    start_sequence, \* history: the sequence number get_socket returned
    log,            \* server: the envelopes published so far
    chan            \* the subscriber's queue of delivered, unread envelopes

vars == <<pc, mode, persistent, y_keys, reply, init_sequence, x, y, env,
          outcome, n_entries, requests, seen_max, applied_seq, dropped_seq, start_sequence, log, chan>>

ToSet(s) == {s[i] : i \in 1..Len(s)}
Max(a, b) == IF a >= b THEN a ELSE b

\* The y key that update is given in serve mode (a str).
y_key == y_keys[1]

\* x_key in entry and all(y_key in entry for y_key in y_keys)
HasAllKeys(entry, yks) ==
    /\ x_key \in DOMAIN entry
    /\ \A j \in 1..Len(yks) : yks[j] \in DOMAIN entry

\* Variant of AppendYs that appends to the list of the first y key only.
RECURSIVE AppendYs_first_only(_, _, _, _)
AppendYs_first_only(ys, entry, yks, j) ==
    IF j > Len(yks) \/ j > 1 THEN ys
    ELSE AppendYs_first_only([ys EXCEPT ![yks[j]] = Append(@, entry[yks[j]])],
                             entry, yks, j + 1)

\* for y_key in y_keys: y[y_key].append(entry[y_key])
RECURSIVE AppendYs(_, _, _, _)
AppendYs(ys, entry, yks, j) ==
    IF j > Len(yks) THEN ys
    ELSE AppendYs([ys EXCEPT ![yks[j]] = Append(@, entry[yks[j]])], entry, yks, j + 1)

\* Variant of SeedFrom that puts each x value in front of the earlier ones.
RECURSIVE SeedFrom_x_in_front(_, _, _, _, _)
SeedFrom_x_in_front(entries, yks, i, xs, ys) ==
    IF i > Len(entries) THEN [x |-> xs, y |-> ys]
    ELSE IF HasAllKeys(entries[i], yks)
         THEN SeedFrom_x_in_front(entries, yks, i + 1, <<entries[i][x_key]>> \o xs,
                                  AppendYs(ys, entries[i], yks, 1))
         ELSE SeedFrom_x_in_front(entries, yks, i + 1, xs, ys)

\* for entry in entries: project the entry when it has every selected key.
RECURSIVE SeedFrom(_, _, _, _, _)
SeedFrom(entries, yks, i, xs, ys) ==
    IF i > Len(entries) THEN [x |-> xs, y |-> ys]
    ELSE IF HasAllKeys(entries[i], yks)
         THEN SeedFrom(entries, yks, i + 1, Append(xs, entries[i][x_key]),
                       AppendYs(ys, entries[i], yks, 1))
         ELSE SeedFrom(entries, yks, i + 1, xs, ys)

\* y = one empty list per y key.
EmptyYs(yks) == [k \in ToSet(yks) |-> <<>>]

Init ==
    /\ pc = "start"
    /\ mode \in {"serve", "notebook"}
    /\ persistent \in BOOLEAN
    /\ y_keys \in (IF mode = "serve" THEN ServeYKeys ELSE NotebookYKeys)
    /\ reply = NoReply
    /\ init_sequence = 0
    /\ x = <<>>
    /\ y = EmptyYs(y_keys)
    /\ env = NoEnvelope
    /\ outcome = "none"
    /\ n_entries = 0
    /\ requests = 0
    /\ seen_max = 0
    /\ applied_seq = 0
    /\ dropped_seq = 0
    /\ start_sequence = 0
    /\ log = <<>>
    /\ chan = <<>>

\* get_socket up to the snapshot request: the subscriber is connected, the
\* locals are initialised and, when persistent, the request is sent.
connect ==
    /\ pc = "start"
    /\ pc' = "connected"
    /\ requests' = IF persistent THEN requests + 1 ELSE requests
    /\ UNCHANGED <<mode, persistent, y_keys, reply, init_sequence, x, y, env,
                   outcome, n_entries, seen_max, applied_seq, dropped_seq, start_sequence, log, chan>>

\* The request channel delivers some response to the pending request.
snapshot_reply ==
    /\ pc = "connected"
    /\ persistent
    /\ ~reply.pending
    /\ \E s \in Snapshots :
          reply' = [sequence |-> s.sequence, entries |-> s.entries, pending |-> TRUE]
    /\ UNCHANGED <<pc, mode, persistent, y_keys, init_sequence, x, y, env,
                   outcome, n_entries, requests, seen_max, applied_seq, dropped_seq, start_sequence, log, chan>>

\* The rest of get_socket: seed sequence, x and y from the snapshot when
\* persistent, else return 0 and the empty lists.
get_socket ==
    /\ pc = "connected"
    /\ IF persistent
       THEN /\ reply.pending
            /\ LET seeded == SeedFrom(reply.entries, y_keys, 1, <<>>, EmptyYs(y_keys))
               IN  /\ x' = seeded.x
                   /\ y' = seeded.y
            /\ init_sequence' = reply.sequence
            /\ start_sequence' = reply.sequence
            /\ n_entries' = Len(reply.entries)
            /\ reply' = NoReply
       ELSE /\ x' = <<>>
            /\ y' = EmptyYs(y_keys)
            /\ init_sequence' = 0
            /\ start_sequence' = 0
            /\ UNCHANGED <<n_entries, reply>>
    /\ pc' = "seeded"
    /\ UNCHANGED <<mode, persistent, y_keys, env, outcome, requests,
                   seen_max, applied_seq, dropped_seq, log, chan>>

\* serve_plot and notebook_plot after get_socket has returned: the figure
\* and its line are created from x and y, and update is set to run with the
\* returned sequence (periodic callback or loop).  get_socket's locals are
\* gone.
start_plot ==
    /\ pc = "seeded"
    /\ pc' = "live"
    /\ n_entries' = 0
    /\ UNCHANGED <<mode, persistent, y_keys, reply, init_sequence, x, y, env,
                   outcome, requests, seen_max, applied_seq, dropped_seq,
                   start_sequence, log, chan>>

\* Variant of Fresh that lets the threshold itself through.
Fresh_or_equal(sequence, init) == sequence >= init

\* sequence > init_sequence (line 90, first conjunct).
Fresh(sequence, init) == sequence > init

\* key in entry, for a str key.
HasKey(key, entry) == key \in DOMAIN entry

\* Variant of AppendPoint that puts the value in front.
AppendPoint_in_front(column, value) == <<value>> \o column

\* column + [value] (lines 92-93): a new list, the value at the end.
AppendPoint(column, value) == column \o <<value>>

\* Variant of BoundSequence that raises the threshold to what was received.
BoundSequence_advancing(init, received) == Max(init, received)

\* The init_sequence the next invocation of update is given: the value bound
\* once by partial (line 117) or passed again by the loop (line 146).
BoundSequence(init, received) == init

\* Variant of UpdateWith that appends the x value of an entry that has the
\* x key but not the y key.
UpdateWith_partial(e) ==
    /\ env' = e
    /\ seen_max' = Max(seen_max, e.sequence)
    /\ init_sequence' = BoundSequence(init_sequence, e.sequence)
    /\ IF ~Fresh(e.sequence, init_sequence)
       THEN /\ outcome' = "dropped"
            /\ UNCHANGED <<pc, x, y, applied_seq, dropped_seq>>
       ELSE IF ~HasKey(x_key, e.entry)
       THEN /\ outcome' = "dropped"
            /\ dropped_seq' = e.sequence
            /\ UNCHANGED <<pc, x, y, applied_seq>>
       ELSE IF mode = "notebook"
       THEN /\ outcome' = "raised"
            /\ pc' = "raised"
            /\ UNCHANGED <<x, y, applied_seq, dropped_seq>>
       ELSE /\ x' = AppendPoint(x, e.entry[x_key])
            /\ y' = IF HasKey(y_key, e.entry)
                    THEN [y EXCEPT ![y_key] = AppendPoint(@, e.entry[y_key])]
                    ELSE y
            /\ outcome' = "applied"
            /\ applied_seq' = e.sequence
            /\ UNCHANGED <<pc, dropped_seq>>
    /\ UNCHANGED <<mode, persistent, y_keys, reply, n_entries, requests,
                   start_sequence, log>>

\* The body of update for the envelope e that recv returned (lines 89-94).
\* The condition of line 90 is evaluated left to right: a sequence number
\* not above init_sequence or an entry without the x key ends it; then
\* `y_key in entry` is evaluated, which raises TypeError for the list that
\* notebook_plot passes and looks the key up for a str.
UpdateWith(e) ==
    /\ env' = e
    /\ seen_max' = Max(seen_max, e.sequence)
    /\ init_sequence' = BoundSequence(init_sequence, e.sequence)
    /\ IF ~Fresh(e.sequence, init_sequence)
       THEN /\ outcome' = "dropped"
            /\ UNCHANGED <<pc, x, y, applied_seq, dropped_seq>>
       ELSE IF ~HasKey(x_key, e.entry)
       THEN /\ outcome' = "dropped"
            /\ dropped_seq' = e.sequence
            /\ UNCHANGED <<pc, x, y, applied_seq>>
       ELSE IF mode = "notebook"
       THEN /\ outcome' = "raised"
            /\ pc' = "raised"
            /\ UNCHANGED <<x, y, applied_seq, dropped_seq>>
       ELSE IF ~HasKey(y_key, e.entry)
       THEN /\ outcome' = "dropped"
            /\ dropped_seq' = e.sequence
            /\ UNCHANGED <<pc, x, y, applied_seq>>
       ELSE /\ x' = AppendPoint(x, e.entry[x_key])
            /\ y' = [y EXCEPT ![y_key] = AppendPoint(@, e.entry[y_key])]
            /\ outcome' = "applied"
            /\ applied_seq' = e.sequence
            /\ UNCHANGED <<pc, dropped_seq>>
    /\ UNCHANGED <<mode, persistent, y_keys, reply, n_entries, requests,
                   start_sequence, log>>

\* One invocation of update (periodic callback or loop iteration) on a
\* transport that may deliver any envelope.
update ==
    /\ pc = "live"
    /\ Len(x) < MaxLen
    /\ \E e \in Envelopes : UpdateWith(e)
    /\ UNCHANGED chan

Next == connect \/ snapshot_reply \/ get_socket \/ start_plot \/ update

Spec == Init /\ [][Next]_vars

(***************************************************************************)
(* The server end of the two channels (mimir/stream.py and the logger are  *)
(* not part of the sources at hand): it numbers the entries it publishes   *)
(* with strictly increasing sequence numbers, the live channel delivers in *)
(* order what is published after the subscriber connected, and a snapshot  *)
(* holds the sequence number of the last published entry with every entry  *)
(* published so far.                                                       *)
(***************************************************************************)
LastSeq == IF log = <<>> THEN 0 ELSE log[Len(log)].sequence

\* The server logs one more entry and publishes its envelope.
publish ==
    /\ Len(log) < MaxLog
    /\ \E s \in SeqNums, entry \in StreamEntries :
          /\ s > LastSeq
          /\ log' = Append(log, [sequence |-> s, entry |-> entry])
          /\ chan' = IF pc = "start" THEN chan
                     ELSE Append(chan, [sequence |-> s, entry |-> entry])
    /\ UNCHANGED <<pc, mode, persistent, y_keys, reply, init_sequence, x, y, env,
                   outcome, n_entries, requests, seen_max, applied_seq, dropped_seq,
                   start_sequence>>

\* The server answers the snapshot request from its log.
serve_snapshot ==
    /\ pc = "connected"
    /\ persistent
    /\ ~reply.pending
    /\ reply' = [sequence |-> LastSeq,
                 entries |-> [i \in 1..Len(log) |-> log[i].entry],
                 pending |-> TRUE]
    /\ UNCHANGED <<pc, mode, persistent, y_keys, init_sequence, x, y, env,
                   outcome, n_entries, requests, seen_max, applied_seq, dropped_seq, start_sequence, log, chan>>

\* Variant of update_feed that reads every unread envelope and processes
\* the newest.
update_feed_draining ==
    /\ pc = "live"
    /\ chan /= <<>>
    /\ UpdateWith(chan[Len(chan)])
    /\ chan' = <<>>

\* One invocation of update on the live channel of that server: recv
\* returns the oldest unread envelope.
update_feed ==
    /\ pc = "live"
    /\ chan /= <<>>
    /\ UpdateWith(Head(chan))
    /\ chan' = Tail(chan)

NextStream ==
    publish \/ connect \/ serve_snapshot \/ get_socket \/ start_plot \/ update_feed

SpecStream == Init /\ [][NextStream]_vars

(***************************************************************************)
(* Failures of the snapshot exchange.  get_snapshot (mimir/stream.py) is   *)
(* not part of the sources at hand: it raises TimeoutError when the        *)
(* request exceeds its deadline and ProtocolError when the response is     *)
(* malformed or missing.  get_socket calls it on line 59.                  *)
(***************************************************************************)

\* get_snapshot exceeds its deadline: TimeoutError is raised on line 59.
fetch_timeout ==
    /\ pc = "connected"
    /\ persistent
    /\ ~reply.pending
    /\ pc' = "timeout"
    /\ UNCHANGED <<mode, persistent, y_keys, reply, init_sequence, x, y, env,
                   outcome, n_entries, requests, seen_max, applied_seq, dropped_seq,
                   start_sequence, log, chan>>

\* get_snapshot finds the response malformed: ProtocolError is raised on
\* line 59.
fetch_malformed ==
    /\ pc = "connected"
    /\ persistent
    /\ ~reply.pending
    /\ pc' = "malformed"
    /\ UNCHANGED <<mode, persistent, y_keys, reply, init_sequence, x, y, env,
                   outcome, n_entries, requests, seen_max, applied_seq, dropped_seq,
                   start_sequence, log, chan>>

\* Variant of get_socket_raises that catches the exception and returns the
\* values of lines 54-56.
get_socket_raises_defaulting ==
    /\ pc \in {"timeout", "malformed"}
    /\ pc' = "seeded"
    /\ x' = <<>>
    /\ y' = EmptyYs(y_keys)
    /\ init_sequence' = 0
    /\ start_sequence' = 0
    /\ UNCHANGED <<mode, persistent, y_keys, reply, env, outcome, n_entries, requests,
                   seen_max, applied_seq, dropped_seq, log, chan>>

\* get_socket when line 59 raises: there is no handler in get_socket, in
\* serve_plot or in notebook_plot, so the exception reaches their caller;
\* line 66 is not reached, no plot is created and update never runs.
get_socket_raises ==
    /\ pc \in {"timeout", "malformed"}
    /\ pc' = "failed"
    /\ outcome' = IF pc = "timeout" THEN "TimeoutError" ELSE "ProtocolError"
    /\ UNCHANGED <<mode, persistent, y_keys, reply, init_sequence, x, y, env,
                   n_entries, requests, seen_max, applied_seq, dropped_seq,
                   start_sequence, log, chan>>

NextFetch == Next \/ fetch_timeout \/ fetch_malformed \/ get_socket_raises

SpecFetch == Init /\ [][NextFetch]_vars

(***************************************************************************)
(* The end of a session.  plot.py never closes the subscriber; the channel *)
(* is closed from outside (the socket is closed, the session torn down),   *)
(* after which a read of it raises ClosedChannelError.                     *)
(***************************************************************************)

\* The live channel is closed while the session is live.
close ==
    /\ pc = "live"
    /\ pc' = "closed"
    /\ UNCHANGED <<mode, persistent, y_keys, reply, init_sequence, x, y, env,
                   outcome, n_entries, requests, seen_max, applied_seq, dropped_seq,
                   start_sequence, log, chan>>

\* Variant of update_closed that catches the error of recv and goes on to
\* process the oldest unread envelope.
update_closed_swallowing ==
    /\ pc = "closed"
    /\ chan /= <<>>
    /\ UpdateWith(Head(chan))
    /\ chan' = Tail(chan)

\* One invocation of update on the closed channel: recv (line 89) raises,
\* update has no handler, so the exception leaves update before line 90 and
\* nothing is assigned.
update_closed ==
    /\ pc = "closed"
    /\ outcome' = "ClosedChannelError"
    /\ UNCHANGED <<pc, mode, persistent, y_keys, reply, init_sequence, x, y, env,
                   n_entries, requests, seen_max, applied_seq, dropped_seq,
                   start_sequence, log, chan>>

NextClosed == NextStream \/ close \/ update_closed

SpecClosed == Init /\ [][NextClosed]_vars

(***************************************************************************)
(* update statement by statement, for what a reader of the plot's data     *)
(* source can see between two statements of update.  The reader sees x and *)
(* y as they are in the state.  update is the only writer of the data      *)
(* source and its invocations do not overlap (one periodic callback, one   *)
(* loop), so the lists built on lines 92 and 93 are determined by x, y and *)
(* env until line 94 assigns them.                                         *)
(***************************************************************************)

\* Lines 89-90 for the envelope e that recv returned: as UpdateWith, but
\* when the condition holds control moves to line 92.
RecvWith(e) ==
    /\ env' = e
    /\ seen_max' = Max(seen_max, e.sequence)
    /\ init_sequence' = BoundSequence(init_sequence, e.sequence)
    /\ IF ~Fresh(e.sequence, init_sequence)
       THEN /\ outcome' = "dropped"
            /\ UNCHANGED <<pc, dropped_seq>>
       ELSE IF ~HasKey(x_key, e.entry)
       THEN /\ outcome' = "dropped"
            /\ dropped_seq' = e.sequence
            /\ UNCHANGED pc
       ELSE IF mode = "notebook"
       THEN /\ outcome' = "raised"
            /\ pc' = "raised"
            /\ UNCHANGED dropped_seq
       ELSE IF ~HasKey(y_key, e.entry)
       THEN /\ outcome' = "dropped"
            /\ dropped_seq' = e.sequence
            /\ UNCHANGED pc
       ELSE /\ pc' = "line92"
            /\ UNCHANGED <<outcome, dropped_seq>>
    /\ UNCHANGED <<mode, persistent, y_keys, reply, x, y, n_entries, requests,
                   applied_seq, start_sequence, log>>

\* Lines 89-90 of one invocation of update.
update_recv ==
    /\ pc = "live"
    /\ Len(x) < MaxLen
    /\ \E e \in Envelopes : RecvWith(e)
    /\ UNCHANGED chan

\* Variant of update_line92 that appends to the list of the data source.
update_line92_in_place ==
    /\ pc = "line92"
    /\ pc' = "line93"
    /\ x' = AppendPoint(x, env.entry[x_key])
    /\ UNCHANGED <<mode, persistent, y_keys, reply, init_sequence, y, env,
                   outcome, n_entries, requests, seen_max, applied_seq, dropped_seq,
                   start_sequence, log, chan>>

\* Line 92: x = plot.data_source.data['x'] + [entry[x_key]], a new list
\* bound to a local; the data source is as it was.
update_line92 ==
    /\ pc = "line92"
    /\ pc' = "line93"
    /\ UNCHANGED <<mode, persistent, y_keys, reply, init_sequence, x, y, env,
                   outcome, n_entries, requests, seen_max, applied_seq, dropped_seq,
                   start_sequence, log, chan>>

\* Line 93: y = plot.data_source.data['y'] + [entry[y_key]], likewise.
update_line93 ==
    /\ pc = "line93"
    /\ pc' = "line94"
    /\ UNCHANGED <<mode, persistent, y_keys, reply, init_sequence, x, y, env,
                   outcome, n_entries, requests, seen_max, applied_seq, dropped_seq,
                   start_sequence, log, chan>>

\* Line 94: plot.data_source.data = dict(x=x, y=y), one assignment that
\* replaces both columns.
update_line94 ==
    /\ pc = "line94"
    /\ pc' = "live"
    /\ x' = AppendPoint(x, env.entry[x_key])
    /\ y' = [y EXCEPT ![y_key] = AppendPoint(@, env.entry[y_key])]
    /\ outcome' = "applied"
    /\ applied_seq' = env.sequence
    /\ UNCHANGED <<mode, persistent, y_keys, reply, init_sequence, env,
                   n_entries, requests, seen_max, dropped_seq,
                   start_sequence, log, chan>>

NextAtomic ==
    \/ connect \/ snapshot_reply \/ get_socket \/ start_plot
    \/ update_recv \/ update_line92 \/ update_line93 \/ update_line94

SpecAtomic == Init /\ [][NextAtomic]_vars

(***************************************************************************)
(* Properties.                                                             *)
(***************************************************************************)

\* A step that is one invocation of update: the session is live and the
\* server's log is untouched (publishing is the only other step then).
UpdateStep == pc = "live" /\ log' = log

\* The entry has the x key and every configured y key.
ContainsAll(entry) == ({x_key} \cup ToSet(y_keys)) \subseteq DOMAIN entry

SeriesUnchanged == x' = x /\ y' = y

\* The series after the envelope in env' has been appended to it.
SeriesExtended ==
    /\ x' = Append(x, env'.entry[x_key])
    /\ y' = [k \in DOMAIN y |->
                IF k = y_keys[1] THEN Append(y[k], env'.entry[k]) ELSE y[k]]

C2_DuplicateDropped ==
    [][UpdateStep /\ outcome /= "none" /\ env'.sequence <= seen_max
          => SeriesUnchanged]_vars

\* C2 amended: after some envelope has been processed, an envelope whose
\* sequence number is not above the largest one processed leaves the series
\* unchanged exactly when its number is not above S or a key is missing (or
\* update was given notebook_plot's list); otherwise, a re-delivery
\* included, it is appended once more.
C2_DuplicateAboveSnapshotApplied ==
    [][UpdateStep /\ outcome /= "none" /\ env'.sequence <= seen_max
          => IF mode = "serve" /\ env'.sequence > start_sequence
                               /\ ContainsAll(env'.entry)
             THEN SeriesExtended
             ELSE SeriesUnchanged]_vars

\* C2 witness: without a snapshot (S = 0, empty series) two envelopes were
\* applied while no number above 1 was seen: number 1 was applied twice.
C2_Witness ==
    /\ pc = "live" /\ ~persistent
    /\ outcome = "applied"
    /\ seen_max = init_sequence + 1 /\ env.sequence = seen_max
    /\ Len(x) = 2

\* C4 as stated: the sequence number update compares against never
\* decreases, and after an envelope with a larger number is processed it
\* equals that number.
C4_LastAppliedAdvances ==
    [][UpdateStep => /\ init_sequence' >= init_sequence
                     /\ (env'.sequence > init_sequence
                            => init_sequence' = env'.sequence)]_vars

\* C4 amended: the sequence number update compares against is the one
\* get_socket returned, S, and no invocation of update changes it, whatever
\* the sequence number of the envelope processed.
C4_ThresholdConstant ==
    [][UpdateStep => init_sequence' = init_sequence
                     /\ init_sequence' = start_sequence]_vars

\* C4 witness: an envelope numbered above the threshold has been processed
\* and the threshold is still below that number.
C4_Witness ==
    /\ outcome \in {"applied", "raised"}
    /\ env.sequence > init_sequence
    /\ seen_max > init_sequence

Unread(e) == \E i \in 1..Len(chan) : chan[i] = e
Accounted(e) == e.sequence <= init_sequence \/ ~Unread(e)
Plottable(e) == ContainsAll(e.entry)
Column(envs, key) == [i \in 1..Len(envs) |-> envs[i].entry[key]]

\* C3: with a server that numbers its entries increasingly, a snapshot that
\* holds everything up to S and a live channel that delivers in order what
\* is published after the subscriber connected, the series is at every
\* moment the projection, in order and without repetition, of the published
\* records that carry every key and are either covered by the snapshot or
\* read from the live channel, whichever of the two plots runs the session.
C3_NoLossNoDuplication ==
    pc \in {"live", "raised"} /\ persistent
        => LET due == SelectSeq(SelectSeq(log, Accounted), Plottable)
           IN  /\ x = Column(due, x_key)
               /\ \A k \in DOMAIN y : y[k] = Column(due, k)

\* C6: an update that receives an envelope numbered above the threshold
\* whose entry has the x key and every configured y key appends exactly the
\* pair (entry[x_key], entry[y_key]) at the end and changes nothing else of
\* the series.
C6_ApplyAppendsOnePair ==
    [][UpdateStep /\ env'.sequence > init_sequence /\ ContainsAll(env'.entry)
          => SeriesExtended]_vars

\* C7: an update that receives an envelope whose entry lacks the x key or
\* one of the y keys leaves the series unchanged whatever its sequence
\* number, and a snapshot none of whose entries has every key seeds an
\* empty series.
C7_MissingKeyNoChange ==
    [][/\ UpdateStep /\ ~ContainsAll(env'.entry) => SeriesUnchanged
       /\ (pc = "connected" /\ pc' = "seeded" /\ persistent
             /\ \A i \in 1..Len(reply.entries) : ~ContainsAll(reply.entries[i]))
           => x' = <<>> /\ \A k \in DOMAIN y' : y'[k] = <<>>]_vars

\* C7 witness: an envelope numbered above the threshold that has the x key
\* but not the y key was received and dropped.
C7_Witness ==
    /\ pc = "live" /\ mode = "serve"
    /\ outcome = "dropped"
    /\ env.sequence > init_sequence
    /\ x_key \in DOMAIN env.entry /\ y_keys[1] \notin DOMAIN env.entry

\* C8 as stated: an envelope numbered above the threshold that lacks a key
\* raises the threshold to its number, and a later envelope with the number
\* of an envelope dropped for a missing key is dropped too.
C8_MalformedAdvancesFilter ==
    [][/\ UpdateStep /\ env'.sequence > init_sequence /\ ~ContainsAll(env'.entry)
           => init_sequence' = env'.sequence
       /\ UpdateStep /\ dropped_seq > 0 /\ env'.sequence = dropped_seq
           => SeriesUnchanged]_vars

\* C8 amended: an envelope numbered above the threshold that lacks a key
\* leaves the threshold and the series unchanged, and a later envelope with
\* the same number and every key is appended (by an update given a str y
\* key).
C8_MalformedLeavesFilter ==
    [][/\ UpdateStep /\ env'.sequence > init_sequence /\ ~ContainsAll(env'.entry)
           => init_sequence' = init_sequence /\ SeriesUnchanged
       /\ UpdateStep /\ dropped_seq > 0 /\ env'.sequence = dropped_seq
                     /\ ContainsAll(env'.entry) /\ mode = "serve"
           => init_sequence' = init_sequence /\ SeriesExtended]_vars

\* C8 witness: an envelope above the threshold was dropped for a missing
\* key and a later one, with the same number and every key, was applied.
C8_Witness ==
    /\ pc = "live"
    /\ dropped_seq > init_sequence
    /\ outcome = "applied" /\ env.sequence = dropped_seq

C11_NonPersistentStart ==
    [][~persistent
          => /\ requests' = 0
             /\ (pc = "connected" /\ pc' = "seeded"
                   => init_sequence' = 0 /\ x' = <<>>
                      /\ \A k \in DOMAIN y' : y'[k] = <<>>)
             /\ (UpdateStep /\ outcome = "none" /\ env'.sequence = 1
                            /\ ContainsAll(env'.entry)
                   => SeriesExtended)]_vars

C13_TimeoutFallsBack ==
    [][pc = "timeout"
          => /\ pc' = "seeded"
             /\ init_sequence' = 0
             /\ x' = <<>> /\ \A k \in DOMAIN y' : y'[k] = <<>>
             /\ outcome' = "TimeoutError"]_vars

C15_AtomicApply ==
    [][(pc = "live" \/ pc = "line92" \/ pc = "line93" \/ pc = "line94")
          => SeriesUnchanged \/ (pc = "line94" /\ SeriesExtended)]_vars

\* C15 witness: one envelope has been applied and a second apply has built
\* its two lists and not yet assigned them; the reader sees the series of
\* the first apply.
C15_Witness ==
    /\ pc = "line94"
    /\ applied_seq > 0 /\ Len(x) = 1
    /\ env.sequence > init_sequence
    /\ \A k \in DOMAIN y : Len(y[k]) = Len(x)

\* s is t or a proper beginning of t.
IsPrefix(s, t) == Len(s) <= Len(t) /\ \A i \in 1..Len(s) : s[i] = t[i]

\* C16: in every step the x column and every y column before the step are
\* prefixes of the columns after it: points are only ever added at the end,
\* so the points seeded from the snapshot stay, unchanged and in order, in
\* front of every point appended from the live channel.
C16_AppendOnly ==
    [][/\ IsPrefix(x, x')
       /\ DOMAIN y' = DOMAIN y
       /\ \A k \in DOMAIN y : IsPrefix(y[k], y'[k])]_vars

\* C16 witness: the first published record was covered by the snapshot and
\* seeded a point, the second was read from the live channel and applied
\* behind it, with a different x value.
C16_Witness ==
    /\ pc = "live" /\ persistent /\ outcome = "applied"
    /\ Len(log) = 2 /\ chan = <<>>
    /\ log[1].sequence <= init_sequence /\ log[2].sequence > init_sequence
    /\ env = log[2]
    /\ Len(x) = 2 /\ x[1] /= x[2]
    /\ x[1] = log[1].entry[x_key]

\* C17: one invocation of update takes exactly one envelope off the live
\* channel, the oldest one unread, leaves the later ones queued in their
\* order, and adds at most one point to the series.
C17_OneEnvelopePerInvocation ==
    [][UpdateStep
          => /\ chan /= <<>>
             /\ env' = Head(chan)
             /\ chan' = Tail(chan)
             /\ Len(x') <= Len(x) + 1
             /\ \A k \in DOMAIN y : Len(y'[k]) <= Len(y[k]) + 1]_vars

\* C17 witness: two envelopes were waiting; one invocation processed the
\* first and left the second as the only one unread.
C17_Witness ==
    /\ pc = "live" /\ outcome /= "none"
    /\ Len(log) = 2
    /\ env = log[1]
    /\ chan = <<log[2]>>

====
